---- MODULE Spec2Model ----
(***************************************************************************)
(* Ask-tell orchestration of optuna_core.study.Study.                      *)
(*                                                                         *)
(* The Study methods (ask, tell, best_*, get_trials, stop, enqueue_trial,  *)
(* add_trial) are translated from src/optuna_core/study/_study.py.  The    *)
(* Storage collaborator, the FrozenTrial helpers (create_trial, _validate) *)
(* and the evaluation loop that holds Study._optimize_lock are not part of *)
(* the source slice; they follow the contract of spec.md (sections 3, 4.1, *)
(* 4.3, 5).                                                                *)
(***************************************************************************)
EXTENDS Integers, Sequences, FiniteSets, TLC

\* ------------------------------------------------------------------ bounds
MaxTrials == 2      \* trials the storage may hold
MaxValue == 2       \* objective values are 1..MaxValue
MaxConcTrials == 1  \* trials the storage may hold when callers run concurrently
MaxStudies == 2     \* studies the storage may hold
MaxBracket == 2     \* bracket ids are 0..MaxBracket-1

Threads == {"main", "worker"}   \* caller threads sharing the Study
MainThread == "main"            \* the only caller of the sequential specification
Values == 1..MaxValue

\* ------------------------------------------------------------- data model
None == -1          \* Optional[float] value that is absent

WAITING == "WAITING"
RUNNING == "RUNNING"
COMPLETE == "COMPLETE"
PRUNED == "PRUNED"
FAIL == "FAIL"
TrialStates == {WAITING, RUNNING, COMPLETE, PRUNED, FAIL}
FinishedStates == {COMPLETE, PRUNED, FAIL}

MINIMIZE == "MINIMIZE"
MAXIMIZE == "MAXIMIZE"

\* A mapping (dict) is a set of <<key, value>> pairs with unique keys.
Keys(m) == {kv[1] : kv \in m}
EmptyDict == {}
DistributionDicts == {EmptyDict, {<<"x", "UniformDistribution">>}}
\* The payloads of the enqueue_trial example: {"x": 5} and {"x": 0}.
FixedParams == {{<<"x", 5>>}, {<<"x", 0>>}}

\* The Study instance is bound to the first study of the storage.
StudyId == 0

VARIABLES
    studies,        \* storage: sequence of study records, index = study_id + 1
    trials,         \* storage: sequence of trial records, index = trial_id + 1
    optimize_lock,  \* Study._optimize_lock: TRUE when locked
    stop_flag,      \* Study._stop_flag
    pc,             \* per caller thread: position inside the call in progress
    args,           \* per caller thread: arguments of the call in progress
    result,         \* per caller thread: outcome of the last finished call
    handles,        \* trial ids for which a Trial handle exists
    loop_pc,        \* evaluation loop: position
    loop_trial,     \* evaluation loop: trial id of the current trial, or None
    askLog,         \* history: numbers of the trials returned by ask(), in call order
    createLog,      \* history: the call that created each trial, in creation order
    held,           \* the FrozenTrial object the caller keeps from its last read
    view,           \* the study view last handed to the pruner
    pickled,        \* the snapshots __getstate__ has returned (at most the last one)
    loaded,         \* the Study reconstructed by __setstate__, if any: its __dict__
    snapLock        \* history: whether the lock was held when the snapshot was taken

vars == <<studies, trials, optimize_lock, stop_flag, pc, args, result, handles,
          loop_pc, loop_trial, askLog, createLog, held, view,
          pickled, loaded, snapLock>>

storageVars == <<studies, trials>>
lockVars == <<optimize_lock, stop_flag>>
loopVars == <<loop_pc, loop_trial>>
logVars == <<askLog, createLog>>
pickleVars == <<pickled, loaded, snapLock>>
objectVars == <<held, view, pickleVars>>

\* ----------------------------------------------------------------- storage
TrialIds(ts) == 0 .. (Len(ts) - 1)
StudyTrialIds(ts, study_id) == {id \in TrialIds(ts) : ts[id + 1].study_id = study_id}

\* FrozenTrial fields that a template carries into create_new_trial.
create_trial(state, value, params, distributions, system_attrs) ==
    [state |-> state, value |-> value, params |-> params,
     distributions |-> distributions, system_attrs |-> system_attrs]

\* The trial create_new_trial makes when no template is given.
RunningTrial == create_trial(RUNNING, None, EmptyDict, EmptyDict, EmptyDict)

\* create_new_trial(study_id, template_trial): the next sequential number of
\* the study and a fresh trial id; the template's fields are copied in.
create_new_trial(ts, study_id, template) ==
    Append(ts, [study_id |-> study_id,
                number |-> Cardinality(StudyTrialIds(ts, study_id)),
                state |-> template.state,
                value |-> template.value,
                params |-> template.params,
                distributions |-> template.distributions,
                system_attrs |-> template.system_attrs])

\* The id create_new_trial returns.
NewTrialId(ts) == Len(ts)

\* read_trials_from_remote_storage(study_id): a no-op hint for a single-process
\* backend; the local view is the storage itself.
read_trials_from_remote_storage(ts, study_id) == ts

\* set_trial_value(trial_id, value): records the value.
set_trial_value(ts, trial_id, value) ==
    [ts EXCEPT ![trial_id + 1].value = value]

\* The state machine WAITING -> RUNNING -> {COMPLETE, PRUNED, FAIL}.
ValidTransition(old, new) ==
    \/ old = WAITING /\ new = RUNNING
    \/ old = RUNNING /\ new \in FinishedStates

\* set_trial_state(trial_id, state): enforces the state machine; a transition
\* outside it is rejected and nothing is written.
set_trial_state_ok(ts, trial_id, state) ==
    ValidTransition(ts[trial_id + 1].state, state)

set_trial_state(ts, trial_id, state) ==
    [ts EXCEPT ![trial_id + 1].state = state]

\* get_all_trials(study_id): the study's trials ordered by number.
RECURSIVE SelectStudy(_, _)
SelectStudy(ts, study_id) ==
    IF ts = <<>> THEN <<>>
    ELSE IF Head(ts).study_id = study_id
         THEN <<Head(ts)>> \o SelectStudy(Tail(ts), study_id)
         ELSE SelectStudy(Tail(ts), study_id)

get_all_trials(ts, study_id) == SelectStudy(ts, study_id)

get_study_direction(ss, study_id) == ss[study_id + 1].direction

\* get_best_trial(study_id): the COMPLETE trials of the study with the extreme
\* value for the study's direction; the empty set when there is none (the
\* storage then raises the empty-result error).
CompleteTrialIds(ts, study_id) ==
    {id \in StudyTrialIds(ts, study_id) : ts[id + 1].state = COMPLETE}

Better(direction, a, b) ==
    IF direction = MAXIMIZE THEN a >= b ELSE a <= b

get_best_trial(ts, ss, study_id) ==
    {id \in CompleteTrialIds(ts, study_id) :
        \A other \in CompleteTrialIds(ts, study_id) :
            Better(get_study_direction(ss, study_id), ts[id + 1].value, ts[other + 1].value)}

\* FrozenTrial._validate(): params and distributions name the same parameters,
\* and a finished trial carries a value.
validate(frozen) ==
    /\ Keys(frozen.params) = Keys(frozen.distributions)
    /\ frozen.state \in FinishedStates => frozen.value # None

\* ------------------------------------------------------------ Study calls
NoArgs == [trial |-> None, state |-> RUNNING, value |-> None, steps |-> <<>>]
Outcome(op, status) == [op |-> op, status |-> status]
NoResult == Outcome("none", "ok")

Idle(t) == pc[t] = "idle"
Return(t, op, status) ==
    /\ pc' = [pc EXCEPT ![t] = "idle"]
    /\ args' = [args EXCEPT ![t] = NoArgs]
    /\ result' = [result EXCEPT ![t] = Outcome(op, status)]

\* A FrozenTrial object in the caller's hands: its fields, and the trial id of
\* the storage record it is the same object as (None for an object of its own).
TrialObject(ref, obj) == [ref |-> ref, obj |-> obj]
Held(via, object) == [via |-> via, ref |-> object.ref, obj |-> object.obj]
NoHeld == Held("none", TrialObject(None, create_new_trial(<<>>, StudyId, RunningTrial)[1]))

\* A study view: the study itself, or the study narrowed to one bracket.
StudyView(kind, bracket_id, trial_id) ==
    [kind |-> kind, bracket_id |-> bracket_id, trial_id |-> trial_id]
NoView == StudyView("none", None, None)

\* Study.ask: refresh, allocate a trial, return a handle to it.
ask_restart(ts) ==
    create_new_trial([i \in 1..Len(ts) |-> [ts[i] EXCEPT !.state = RUNNING]], StudyId, RunningTrial)
ask(ts) ==
    create_new_trial(read_trials_from_remote_storage(ts, StudyId), StudyId, RunningTrial)

\* The trial id of the handle ask() returns.
ask_trial_id_prev(ts) == IF Len(ts) = 0 THEN 0 ELSE Len(ts) - 1
ask_trial_id(ts) == NewTrialId(read_trials_from_remote_storage(ts, StudyId))

\* Trial.number of a handle: read from the storage record.
TrialNumber(ts, trial_id) == ts[trial_id + 1].number

Ask(t) ==
    /\ Idle(t)
    /\ Len(trials) < MaxTrials
    /\ trials' = ask(trials)
    /\ handles' = handles \cup {ask_trial_id(trials)}
    /\ askLog' = Append(askLog, TrialNumber(trials', ask_trial_id(trials)))
    /\ createLog' = Append(createLog, "ask")
    /\ Return(t, "ask", "ok")
    /\ UNCHANGED <<studies, lockVars, loopVars, objectVars>>

\* Study.ask step by step, for callers that run concurrently: the refresh
\* (line 70) and the allocation (lines 72-73) are separate storage calls.
AskRefresh(t) ==
    /\ Idle(t)
    /\ trials' = read_trials_from_remote_storage(trials, StudyId)
    /\ pc' = [pc EXCEPT ![t] = "ask_create"]
    /\ result' = [result EXCEPT ![t] = NoResult]
    /\ UNCHANGED <<studies, lockVars, loopVars, logVars, handles, args, objectVars>>

AskCreate(t) ==
    /\ pc[t] = "ask_create"
    /\ Len(trials) < MaxTrials
    /\ trials' = create_new_trial(trials, StudyId, RunningTrial)
    /\ handles' = handles \cup {NewTrialId(trials)}
    /\ askLog' = Append(askLog, TrialNumber(trials', NewTrialId(trials)))
    /\ createLog' = Append(createLog, "ask")
    /\ Return(t, "ask", "ok")
    /\ UNCHANGED <<studies, lockVars, loopVars, objectVars>>

\* Study.tell, lines 76-77: a COMPLETE trial needs a value.
TellAssert_off(state, value) == TRUE
TellAssert(state, value) == state = COMPLETE => value # None

\* Study.tell, line 78: the value is written only when one is given.
TellWritesValue_never(value) == FALSE
TellWritesValue(value) == value # None

\* Study.tell, lines 78-80: the storage writes of one tell, in program order.
TellSteps_stateFirst(value) ==
    IF TellWritesValue(value) THEN <<"tell_state", "tell_value">> ELSE <<"tell_state">>
TellSteps(value) ==
    IF TellWritesValue(value) THEN <<"tell_value", "tell_state">> ELSE <<"tell_state">>

\* One storage write of tell: whether the storage accepts it, and what it leaves.
TellStepOk(ts, step, trial, state) ==
    step = "tell_state" => set_trial_state_ok(ts, trial, state)

TellStep(ts, step, trial, state, value) ==
    IF step = "tell_value" THEN set_trial_value(ts, trial, value)
    ELSE IF set_trial_state_ok(ts, trial, state) THEN set_trial_state(ts, trial, state)
    ELSE ts

\* The writes run in order; a rejected write raises and ends the call.
RECURSIVE RunTell(_, _, _, _, _)
RunTell(ts, steps, trial, state, value) ==
    IF steps = <<>> THEN ts
    ELSE IF ~TellStepOk(ts, Head(steps), trial, state) THEN ts
    ELSE RunTell(TellStep(ts, Head(steps), trial, state, value), Tail(steps),
                 trial, state, value)

RECURSIVE RunTellStatus(_, _, _, _, _)
RunTellStatus(ts, steps, trial, state, value) ==
    IF steps = <<>> THEN "ok"
    ELSE IF ~TellStepOk(ts, Head(steps), trial, state) THEN "InvalidTransition"
    ELSE RunTellStatus(TellStep(ts, Head(steps), trial, state, value), Tail(steps),
                       trial, state, value)

\* Study.tell as one call: the storage it leaves and how it ends.
tell(ts, trial, state, value) ==
    IF ~TellAssert(state, value) THEN ts
    ELSE RunTell(ts, TellSteps(value), trial, state, value)

tell_status(ts, trial, state, value) ==
    IF ~TellAssert(state, value) THEN "AssertionError"
    ELSE RunTellStatus(ts, TellSteps(value), trial, state, value)

TellCall(t, trial, state, value) ==
    /\ Idle(t)
    /\ trials' = tell(trials, trial, state, value)
    /\ Return(t, "tell", tell_status(trials, trial, state, value))
    /\ UNCHANGED <<studies, lockVars, loopVars, logVars, handles, objectVars>>

Tell(t) ==
    \E trial \in handles, state \in TrialStates, value \in {None} \cup Values :
        TellCall(t, trial, state, value)

\* Study.tell step by step, for a caller that runs concurrently with others:
\* the call is entered (lines 76-77), then each storage write is one step.
TellBegin(t) ==
    /\ Idle(t)
    /\ \E trial \in handles, state \in TrialStates, value \in {None} \cup Values :
        IF ~TellAssert(state, value)
        THEN Return(t, "tell", "AssertionError")
        ELSE /\ pc' = [pc EXCEPT ![t] = Head(TellSteps(value))]
             /\ args' = [args EXCEPT ![t] =
                        [trial |-> trial, state |-> state, value |-> value,
                         steps |-> Tail(TellSteps(value))]]
             /\ result' = [result EXCEPT ![t] = NoResult]
    /\ UNCHANGED <<storageVars, lockVars, loopVars, logVars, handles, objectVars>>

\* Study.tell, line 79 or line 80: the next storage write of the call.
TellWrite(t) ==
    /\ pc[t] \in {"tell_value", "tell_state"}
    /\ trials' = TellStep(trials, pc[t], args[t].trial, args[t].state, args[t].value)
    /\ IF ~TellStepOk(trials, pc[t], args[t].trial, args[t].state)
       THEN Return(t, "tell", "InvalidTransition")
       ELSE IF args[t].steps = <<>>
       THEN Return(t, "tell", "ok")
       ELSE /\ pc' = [pc EXCEPT ![t] = Head(args[t].steps)]
            /\ args' = [args EXCEPT ![t].steps = Tail(args[t].steps)]
            /\ UNCHANGED result
    /\ UNCHANGED <<studies, lockVars, loopVars, logVars, handles, objectVars>>

\* trial_module.Trial(study, trial_id): a handle built by the caller for a trial
\* that is already in the storage.
NewTrialHandle(t) ==
    /\ Idle(t)
    /\ \E trial_id \in TrialIds(trials) \ handles :
        handles' = handles \cup {trial_id}
    /\ UNCHANGED <<storageVars, lockVars, loopVars, logVars, pc, args, result, objectVars>>

\* The number a FrozenTrial handed to add_trial carries, if it carries one.
TemplateNumber(frozen) == IF "number" \in DOMAIN frozen THEN frozen.number ELSE None

\* Study.add_trial: validate, then insert the trial as a new trial.
add_trial_unchecked(ts, frozen) == create_new_trial(ts, StudyId, frozen)
add_trial_alias(ts, frozen) ==
    IF ~validate(frozen) THEN ts
    ELSE IF TemplateNumber(frozen) = None THEN create_new_trial(ts, StudyId, frozen)
    ELSE [create_new_trial(ts, StudyId, frozen) EXCEPT ![Len(ts) + 1].number = TemplateNumber(frozen)]
add_trial(ts, frozen) ==
    IF validate(frozen) THEN create_new_trial(ts, StudyId, frozen) ELSE ts

add_trial_status(frozen) == IF validate(frozen) THEN "ok" ELSE "ValueError"

\* The FrozenTrials handed to add_trial.
FrozenTrials ==
    {create_trial(s, v, p, d, EmptyDict) :
        s \in {COMPLETE, PRUNED}, v \in {None, 1},
        p \in {EmptyDict, {<<"x", 2>>}}, d \in DistributionDicts}

AddTrialCall(t, frozen) ==
    /\ Idle(t)
    /\ validate(frozen) => Len(trials) < MaxTrials
    /\ trials' = add_trial(trials, frozen)
    /\ createLog' = IF validate(frozen) THEN Append(createLog, "add_trial") ELSE createLog
    /\ Return(t, "add_trial", add_trial_status(frozen))
    /\ UNCHANGED <<studies, lockVars, loopVars, askLog, handles, objectVars>>

AddTrial(t) == \E frozen \in FrozenTrials : AddTrialCall(t, frozen)

\* Study.enqueue_trial: add_trial of a WAITING trial carrying the fixed params.
enqueue_trial_template(params) ==
    create_trial(WAITING, None, EmptyDict, EmptyDict, {<<"fixed_params", params>>})

enqueue_trial_running(ts, params) ==
    add_trial(ts, create_trial(RUNNING, None, EmptyDict, EmptyDict, {<<"fixed_params", params>>}))
enqueue_trial(ts, params) == add_trial(ts, enqueue_trial_template(params))

EnqueueTrialCall(t, params) ==
    /\ Idle(t)
    /\ Len(trials) < MaxTrials
    /\ trials' = enqueue_trial(trials, params)
    /\ createLog' = Append(createLog, "enqueue_trial")
    /\ Return(t, "enqueue_trial", add_trial_status(enqueue_trial_template(params)))
    /\ UNCHANGED <<studies, lockVars, loopVars, askLog, handles, objectVars>>

EnqueueTrial(t) == \E params \in FixedParams : EnqueueTrialCall(t, params)

\* Study.get_trials: refresh, then list the study's trials.
get_trials(ts) ==
    get_all_trials(read_trials_from_remote_storage(ts, StudyId), StudyId)

GetTrials(t) ==
    /\ Idle(t)
    /\ Return(t, "get_trials", "ok")
    /\ UNCHANGED <<storageVars, lockVars, loopVars, logVars, handles, objectVars>>

\* add_trial of a FrozenTrial taken from a study's trial list, as in
\* "for trial in study.trials: other_study.add_trial(trial)".
AddTrialCopy(t) ==
    \E i \in 1..Len(get_trials(trials)) : AddTrialCall(t, get_trials(trials)[i])

\* Study.best_trial: the trials the storage may return as best (none: it raises).
best_trial(ts, ss) == {ts[id + 1] : id \in get_best_trial(ts, ss, StudyId)}

\* Study.best_value: the value of best_trial.
best_value_number(ts, ss) == {b.number : b \in best_trial(ts, ss)}
best_value(ts, ss) == {b.value : b \in best_trial(ts, ss)}

\* Study.best_params: the params of best_trial.
best_params(ts, ss) == {b.params : b \in best_trial(ts, ss)}

\* The three properties raise what get_best_trial raises.
best_status_swallow(ts, ss) == "ok"
best_status(ts, ss) == IF best_trial(ts, ss) = {} THEN "EmptyResultError" ELSE "ok"

BestTrial(t) ==
    /\ Idle(t)
    /\ Return(t, "best_trial", best_status(trials, studies))
    /\ UNCHANGED <<storageVars, lockVars, loopVars, logVars, handles, objectVars>>

\* The FrozenTrial objects the reads hand out.  The storage keeps one object
\* per trial; get_all_trials(deepcopy) returns copies of them when deepcopy is
\* set and the objects themselves otherwise.
StorageObject(ts, trial_id) == TrialObject(trial_id, ts[trial_id + 1])
deepcopy(object) == TrialObject(None, object.obj)

RECURSIVE SelectStudyIds(_, _, _)
SelectStudyIds(ts, study_id, from) ==
    IF from > Len(ts) THEN <<>>
    ELSE IF ts[from].study_id = study_id
         THEN <<from - 1>> \o SelectStudyIds(ts, study_id, from + 1)
         ELSE SelectStudyIds(ts, study_id, from + 1)

get_all_trials_objects(ts, study_id, deep) ==
    LET ids == SelectStudyIds(ts, study_id, 1)
    IN [i \in 1..Len(ids) |->
            IF deep THEN deepcopy(StorageObject(ts, ids[i])) ELSE StorageObject(ts, ids[i])]

\* Study.get_trials(deepcopy), lines 168-169: the flag is passed to the storage.
get_trials_objects(ts, deep) ==
    get_all_trials_objects(read_trials_from_remote_storage(ts, StudyId), StudyId, deep)

\* Study.trials, line 131: get_trials() with the default deepcopy=True (line 133).
trials_objects(ts) == get_trials_objects(ts, TRUE)

\* Study.best_trial, line 107: copy.deepcopy of what the storage returns.
best_trial_objects_alias(ts, ss) ==
    {StorageObject(ts, id) : id \in get_best_trial(ts, ss, StudyId)}
best_trial_objects(ts, ss) ==
    {deepcopy(StorageObject(ts, id)) : id \in get_best_trial(ts, ss, StudyId)}

\* The caller reads and keeps one of the returned objects.
HoldGetTrials(t) ==
    /\ Idle(t)
    /\ \E deep \in BOOLEAN :
        \E i \in 1..Len(get_trials_objects(trials, deep)) :
            held' = Held(IF deep THEN "get_trials" ELSE "get_trials_nocopy",
                         get_trials_objects(trials, deep)[i])
    /\ Return(t, "get_trials", "ok")
    /\ UNCHANGED <<storageVars, lockVars, loopVars, logVars, handles, view, pickleVars>>

HoldTrials(t) ==
    /\ Idle(t)
    /\ \E i \in 1..Len(trials_objects(trials)) :
        held' = Held("trials", trials_objects(trials)[i])
    /\ Return(t, "trials", "ok")
    /\ UNCHANGED <<storageVars, lockVars, loopVars, logVars, handles, view, pickleVars>>

HoldBestTrial(t) ==
    /\ Idle(t)
    /\ IF best_trial_objects(trials, studies) = {}
       THEN held' = held
       ELSE \E object \in best_trial_objects(trials, studies) :
                held' = Held("best_trial", object)
    /\ Return(t, "best_trial", best_status(trials, studies))
    /\ UNCHANGED <<storageVars, lockVars, loopVars, logVars, handles, view, pickleVars>>

\* The caller assigns to a field of the object it keeps.  An object that is
\* the storage's own changes the storage record with it.
MutatedValue == 0       \* a value no tell() passes
MutatedDict == {<<"mutated", 0>>}
Mutations(obj) ==
    {[obj EXCEPT !.value = MutatedValue],
     [obj EXCEPT !.state = FAIL],
     [obj EXCEPT !.params = MutatedDict],
     [obj EXCEPT !.system_attrs = MutatedDict]}

MutateHeld(t) ==
    /\ Idle(t)
    /\ held.via # "none"
    /\ \E mutated \in Mutations(held.obj) :
        /\ mutated # held.obj
        /\ held' = [held EXCEPT !.obj = mutated]
        /\ trials' = IF held.ref = None THEN trials
                     ELSE [trials EXCEPT ![held.ref + 1] = mutated]
    /\ Return(t, "mutate", "ok")
    /\ UNCHANGED <<studies, lockVars, loopVars, logVars, handles, view, pickleVars>>

\* Study.stop, line 306: the non-blocking probe succeeds iff the lock is free.
stop_probe(locked) == ~locked

\* Study.stop, lines 306-307 and 313, as one call: the lock and the flag it leaves.
stop_lock_after_keep(locked) == TRUE
stop_lock_after(locked) == IF stop_probe(locked) THEN FALSE ELSE locked

stop_flag_after_unset(locked, flag) == flag
stop_flag_after(locked, flag) == IF stop_probe(locked) THEN flag ELSE TRUE

stop_status(locked) == IF stop_probe(locked) THEN "RuntimeError" ELSE "ok"

Stop(t) ==
    /\ Idle(t)
    /\ stop_flag' = stop_flag_after(optimize_lock, stop_flag)
    /\ optimize_lock' = stop_lock_after(optimize_lock)
    /\ Return(t, "stop", stop_status(optimize_lock))
    /\ UNCHANGED <<storageVars, loopVars, logVars, handles, objectVars>>

\* Study.stop step by step, for callers that run concurrently: the probe
\* (line 306), then either the release and the raise (lines 307-311) or the
\* write of the flag (line 313).
StopProbe(t) ==
    /\ Idle(t)
    /\ IF stop_probe(optimize_lock)
       THEN /\ optimize_lock' = TRUE
            /\ pc' = [pc EXCEPT ![t] = "stop_release"]
       ELSE /\ optimize_lock' = optimize_lock
            /\ pc' = [pc EXCEPT ![t] = "stop_set_flag"]
    /\ result' = [result EXCEPT ![t] = NoResult]
    /\ UNCHANGED <<storageVars, stop_flag, args, loopVars, logVars, handles, objectVars>>

StopRelease(t) ==
    /\ pc[t] = "stop_release"
    /\ optimize_lock' = FALSE
    /\ Return(t, "stop", "RuntimeError")
    /\ UNCHANGED <<storageVars, stop_flag, loopVars, logVars, handles, objectVars>>

StopSetFlag(t) ==
    /\ pc[t] = "stop_set_flag"
    /\ stop_flag' = TRUE
    /\ Return(t, "stop", "ok")
    /\ UNCHANGED <<storageVars, optimize_lock, loopVars, logVars, handles, objectVars>>

\* ------------------------------------------------------------ bracket filter
\* study.pruner: a bracket (Hyperband) pruner or any other (MedianPruner is
\* the default of Study.__init__).
HyperbandPruner == "HyperbandPruner"
MedianPruner == "MedianPruner"
PrunerKinds == {HyperbandPruner, MedianPruner}
BracketIds == 0 .. (MaxBracket - 1)

\* pruner._get_bracket_id(study, trial): the bracket id kept in the trial's
\* system_attrs; None when the trial has none.
BracketAttrs(ts, trial_id) ==
    {kv \in ts[trial_id + 1].system_attrs : kv[1] = "bracket_id"}
_get_bracket_id(ts, trial_id) ==
    IF BracketAttrs(ts, trial_id) = {} THEN None
    ELSE (CHOOSE kv \in BracketAttrs(ts, trial_id) : TRUE)[2]

\* The pruner puts a new trial into a bracket: the id goes into system_attrs.
AssignBracket ==
    /\ \E trial_id \in TrialIds(trials), bracket_id \in BracketIds :
        /\ _get_bracket_id(trials, trial_id) = None
        /\ trials' = [trials EXCEPT ![trial_id + 1].system_attrs =
                                       @ \cup {<<"bracket_id", bracket_id>>}]
    /\ UNCHANGED <<studies, lockVars, loopVars, logVars, handles, pc, args, result, objectVars>>

\* pruner._create_bracket_study(study, bracket_id): the study narrowed to a bracket.
_create_bracket_study(bracket_id, trial_id) == StudyView("bracket", bracket_id, trial_id)

\* _filter_study(study, trial): the view handed to the pruner.
_filter_study_identity(pruner, ts, trial_id) == StudyView("study", None, trial_id)
_filter_study(pruner, ts, trial_id) ==
    IF pruner = HyperbandPruner
    THEN _create_bracket_study(_get_bracket_id(ts, trial_id), trial_id)
    ELSE StudyView("study", None, trial_id)

\* get_trials() of a view: the bracket view filters the study's list each time
\* it is asked; the study itself lists everything.
RECURSIVE SelectBracket(_, _, _, _)
SelectBracket(ts, ids, bracket_id, from) ==
    IF from > Len(ids) THEN <<>>
    ELSE IF _get_bracket_id(ts, ids[from]) = bracket_id
         THEN <<ts[ids[from] + 1]>> \o SelectBracket(ts, ids, bracket_id, from + 1)
         ELSE SelectBracket(ts, ids, bracket_id, from + 1)

view_get_trials(ts, v) ==
    IF v.kind = "bracket"
    THEN SelectBracket(ts, SelectStudyIds(ts, StudyId, 1), v.bracket_id, 1)
    ELSE get_trials(ts)

FilterStudyCall_narrowing(t, pruner, trial_id) ==
    /\ Idle(t)
    /\ view' = _filter_study(pruner, trials, trial_id)
    /\ UNCHANGED <<held, pickleVars>>
    /\ Return(t, "_filter_study", "ok")
    /\ trials' = [id1 \in 1..Len(trials) |->
                    IF pruner = HyperbandPruner
                       /\ _get_bracket_id(trials, id1 - 1) # _get_bracket_id(trials, trial_id)
                    THEN [trials[id1] EXCEPT !.study_id = None]
                    ELSE trials[id1]]
    /\ UNCHANGED <<studies, lockVars, loopVars, logVars, handles>>
FilterStudyCall(t, pruner, trial_id) ==
    /\ Idle(t)
    /\ view' = _filter_study(pruner, trials, trial_id)
    /\ UNCHANGED <<held, pickleVars>>
    /\ Return(t, "_filter_study", "ok")
    /\ UNCHANGED <<storageVars, lockVars, loopVars, logVars, handles>>

\* The trial given to a bracket pruner has been put into a bracket.
FilterStudy(t) ==
    \E pruner \in PrunerKinds, trial_id \in TrialIds(trials) :
        /\ pruner = HyperbandPruner => _get_bracket_id(trials, trial_id) # None
        /\ FilterStudyCall(t, pruner, trial_id)

\* The pruner lists the trials of the view it was handed.
ViewGetTrials(t) ==
    /\ Idle(t)
    /\ view.kind # "none"
    /\ Return(t, "view_get_trials", "ok")
    /\ UNCHANGED <<storageVars, lockVars, loopVars, logVars, handles, objectVars>>

\* --------------------------------------------------------- evaluation loop
\* The loop owns the lock while it runs, evaluates one trial at a time
\* through ask() and tell(), and polls the stop flag after each trial.
LoopBegin ==
    /\ loop_pc = "none"
    /\ ~optimize_lock
    /\ Len(trials) < MaxTrials
    /\ optimize_lock' = TRUE
    /\ loop_pc' = "ask"
    /\ UNCHANGED <<storageVars, stop_flag, pc, args, result, handles, loop_trial, logVars, objectVars>>

LoopAsk ==
    /\ loop_pc = "ask"
    /\ Len(trials) < MaxTrials
    /\ trials' = ask(trials)
    /\ handles' = handles \cup {ask_trial_id(trials)}
    /\ askLog' = Append(askLog, TrialNumber(trials', ask_trial_id(trials)))
    /\ createLog' = Append(createLog, "ask")
    /\ loop_trial' = ask_trial_id(trials)
    /\ loop_pc' = "objective"
    /\ UNCHANGED <<studies, lockVars, pc, args, result, objectVars>>

\* The objective returns and the loop tells its trial; a failing tell ends the loop.
LoopTell ==
    /\ loop_pc = "objective"
    /\ \E state \in FinishedStates, value \in Values :
        /\ trials' = tell(trials, loop_trial, state, value)
        /\ IF tell_status(trials, loop_trial, state, value) = "ok"
           THEN loop_pc' = "check" /\ optimize_lock' = optimize_lock
           ELSE loop_pc' = "none" /\ optimize_lock' = FALSE
    /\ loop_trial' = None
    /\ UNCHANGED <<studies, stop_flag, pc, args, result, handles, logVars, objectVars>>

LoopCheck ==
    /\ loop_pc = "check"
    /\ IF stop_flag \/ Len(trials) >= MaxTrials
       THEN /\ loop_pc' = "none"
            /\ optimize_lock' = FALSE
       ELSE \/ loop_pc' = "ask" /\ optimize_lock' = optimize_lock
            \/ loop_pc' = "none" /\ optimize_lock' = FALSE
    /\ UNCHANGED <<storageVars, stop_flag, pc, args, result, handles, loop_trial, logVars, objectVars>>

\* ----------------------------------------------------------- specification
Directions == {"minimize", "maximize"}

\* create_study, lines 500-507: the direction string chosen at creation.
StudyDirectionOf(direction) ==
    IF direction = "minimize" THEN MINIMIZE ELSE MAXIMIZE

\* The state after create_study(direction = d) on an empty in-memory storage.
InitWith(directions) ==
    /\ \E d \in directions :
        studies = <<[study_name |-> "study0", direction |-> StudyDirectionOf(d)]>>
    /\ trials = <<>>
    /\ optimize_lock = FALSE
    /\ stop_flag = FALSE
    /\ pc = [t \in Threads |-> "idle"]
    /\ args = [t \in Threads |-> NoArgs]
    /\ result = [t \in Threads |-> NoResult]
    /\ handles = {}
    /\ loop_pc = "none"
    /\ loop_trial = None
    /\ askLog = <<>>
    /\ createLog = <<>>
    /\ held = NoHeld
    /\ view = NoView
    /\ pickled = {}
    /\ loaded = {}
    /\ snapLock = FALSE

Init == InitWith(Directions)

\* create_study, line 421: the default direction.
DefaultDirection == "minimize"
InitDefault == InitWith({DefaultDirection})

\* ---------------------------------------------------------- study creation
NOT_SET == "NOT_SET"            \* direction of a study that has none yet

\* study_name arguments: None (the storage generates a name) or a given name.
AutoName == "None"
StudyNameArgs == {AutoName, "study0", "study1"}
\* direction arguments: the two accepted strings and one that is neither.
DirectionArgs == Directions \cup {"sideways"}

StudyIds(ss) == 0 .. (Len(ss) - 1)
StudyNames(ss) == {ss[id + 1].study_name : id \in StudyIds(ss)}

\* The name the storage generates for create_new_study(None): one per study
\* id, different from every given name.
GeneratedName(ss) == IF Len(ss) = 0 THEN "no-name-0"
                     ELSE IF Len(ss) = 1 THEN "no-name-1"
                     ELSE IF Len(ss) = 2 THEN "no-name-2"
                     ELSE "no-name-3"

\* create_new_study(name): fails with the duplicate-name error when the name
\* exists; otherwise adds a study without direction and returns its id.
create_new_study_ok(ss, name) == name = AutoName \/ name \notin StudyNames(ss)
create_new_study(ss, name) ==
    Append(ss, [study_name |-> IF name = AutoName THEN GeneratedName(ss) ELSE name,
                direction |-> NOT_SET])

get_study_id_from_name_ok(ss, name) == name \in StudyNames(ss)
get_study_id_from_name(ss, name) ==
    CHOOSE id \in StudyIds(ss) : ss[id + 1].study_name = name
get_study_name_from_id(ss, study_id) == ss[study_id + 1].study_name

\* set_study_direction(study_id, direction): setting a direction other than
\* the one the study has is a contract violation; it is rejected and nothing
\* is written.
set_study_direction_ok(ss, study_id, direction) ==
    ss[study_id + 1].direction \in {NOT_SET, direction}
set_study_direction(ss, study_id, direction) ==
    [ss EXCEPT ![study_id + 1].direction = direction]

\* create_study, lines 487-495: the study is created, or on a duplicate name
\* looked up (load_if_exists) or the error propagates.
create_study_created(ss, study_name, load_if_exists) ==
    IF create_new_study_ok(ss, study_name) THEN create_new_study(ss, study_name) ELSE ss
create_study_id(ss, study_name, load_if_exists) ==
    IF create_new_study_ok(ss, study_name) THEN Len(ss)
    ELSE get_study_id_from_name(ss, study_name)

\* create_study, lines 497-509, as one call: the studies it leaves and how it ends.
create_study_overwrite(ss, study_name, direction, load_if_exists) ==
    IF ~create_new_study_ok(ss, study_name) /\ ~load_if_exists THEN ss
    ELSE IF direction \notin Directions THEN create_study_created(ss, study_name, load_if_exists)
    ELSE set_study_direction(create_study_created(ss, study_name, load_if_exists),
                             create_study_id(ss, study_name, load_if_exists),
                             StudyDirectionOf(direction))
create_study(ss, study_name, direction, load_if_exists) ==
    LET created == create_study_created(ss, study_name, load_if_exists)
        study_id == create_study_id(ss, study_name, load_if_exists)
    IN IF ~create_new_study_ok(ss, study_name) /\ ~load_if_exists THEN ss
       ELSE IF direction \notin Directions THEN created
       ELSE IF ~set_study_direction_ok(created, study_id, StudyDirectionOf(direction))
       THEN created
       ELSE set_study_direction(created, study_id, StudyDirectionOf(direction))

create_study_status(ss, study_name, direction, load_if_exists) ==
    LET created == create_study_created(ss, study_name, load_if_exists)
        study_id == create_study_id(ss, study_name, load_if_exists)
    IN IF ~create_new_study_ok(ss, study_name) /\ ~load_if_exists THEN "DuplicatedStudyError"
       ELSE IF direction \notin Directions THEN "ValueError"
       ELSE IF ~set_study_direction_ok(created, study_id, StudyDirectionOf(direction))
       THEN "ContractViolation"
       ELSE "ok"

CreateStudyCall(t, study_name, direction, load_if_exists) ==
    /\ Idle(t)
    /\ create_new_study_ok(studies, study_name) => Len(studies) < MaxStudies
    /\ studies' = create_study(studies, study_name, direction, load_if_exists)
    /\ Return(t, "create_study",
              create_study_status(studies, study_name, direction, load_if_exists))
    /\ UNCHANGED <<trials, lockVars, loopVars, logVars, handles, objectVars>>

CreateStudy(t) ==
    \E study_name \in StudyNameArgs, direction \in DirectionArgs, load_if_exists \in BOOLEAN :
        CreateStudyCall(t, study_name, direction, load_if_exists)

\* load_study: a Study for the existing study of that name (Study.__init__
\* looks the id up; an unknown name raises).
load_study_status(ss, study_name) ==
    IF get_study_id_from_name_ok(ss, study_name) THEN "ok" ELSE "KeyError"

LoadStudy(t) ==
    /\ Idle(t)
    /\ \E study_name \in StudyNameArgs \ {AutoName} :
        Return(t, "load_study", load_study_status(studies, study_name))
    /\ UNCHANGED <<storageVars, lockVars, loopVars, logVars, handles, objectVars>>

\* ------------------------------------------------------------ serialization
\* Study.__dict__, as far as the Study methods use it.
StudyDict(name, lock, flag) ==
    [k \in {"study_name", "_study_id", "_optimize_lock", "_stop_flag"} |->
        IF k = "study_name" THEN name
        ELSE IF k = "_study_id" THEN StudyId
        ELSE IF k = "_optimize_lock" THEN lock
        ELSE flag]

\* Study.__getstate__: a copy of __dict__ without the lock.
__getstate___whole(self) == self
__getstate__(self) == [k \in (DOMAIN self) \ {"_optimize_lock"} |-> self[k]]

\* Study.__setstate__: __dict__ takes the snapshot, then a new lock; a new
\* threading.Lock() is unlocked.
__setstate___shared(state) ==
    [k \in (DOMAIN state) \cup {"_optimize_lock"} |->
        IF k \in DOMAIN state THEN state[k] ELSE optimize_lock]
__setstate__(state) ==
    [k \in (DOMAIN state) \cup {"_optimize_lock"} |->
        IF k = "_optimize_lock" THEN FALSE ELSE state[k]]

GetState(t) ==
    /\ Idle(t)
    /\ pickled' = {__getstate__(StudyDict(get_study_name_from_id(studies, StudyId),
                                            optimize_lock, stop_flag))}
    /\ snapLock' = optimize_lock
    /\ Return(t, "__getstate__", "ok")
    /\ UNCHANGED <<storageVars, lockVars, loopVars, logVars, handles, held, view, loaded>>

SetState(t) ==
    /\ Idle(t)
    /\ \E state \in pickled : loaded' = {__setstate__(state)}
    /\ Return(t, "__setstate__", "ok")
    /\ UNCHANGED <<storageVars, lockVars, loopVars, logVars, handles, held, view, pickled, snapLock>>

\* stop() on the reconstructed Study: Study.stop on that instance's own lock and flag.
StopLoaded(t) ==
    /\ Idle(t)
    /\ \E self \in loaded :
        /\ loaded' = {[self EXCEPT
                          !["_optimize_lock"] = stop_lock_after(self["_optimize_lock"]),
                          !["_stop_flag"] = stop_flag_after(self["_optimize_lock"], self["_stop_flag"])]}
        /\ Return(t, "loaded.stop", stop_status(self["_optimize_lock"]))
    /\ UNCHANGED <<storageVars, lockVars, loopVars, logVars, handles, held, view, pickled, snapLock>>

\* The loop of the reconstructed Study takes that instance's lock for its run
\* and gives it back at the end.
LoadedLoopBegin ==
    /\ \E self \in loaded :
        /\ ~self["_optimize_lock"]
        /\ loaded' = {[self EXCEPT !["_optimize_lock"] = TRUE]}
    /\ UNCHANGED <<storageVars, lockVars, loopVars, logVars, handles, pc, args, result,
                   held, view, pickled, snapLock>>

LoadedLoopEnd ==
    /\ \E self \in loaded :
        /\ self["_optimize_lock"]
        /\ loaded' = {[self EXCEPT !["_optimize_lock"] = FALSE]}
    /\ UNCHANGED <<storageVars, lockVars, loopVars, logVars, handles, pc, args, result,
                   held, view, pickled, snapLock>>

\* The trial lifecycle with one caller: every call runs to its end before the
\* next one starts.
Next ==
    \/ Ask(MainThread)
    \/ Tell(MainThread)
    \/ AddTrial(MainThread)
    \/ EnqueueTrial(MainThread)
    \/ GetTrials(MainThread)
    \/ BestTrial(MainThread)

Spec == Init /\ [][Next]_vars

\* The stop protocol with one caller: calls are made outside the loop or from
\* the objective running inside it.
CallerAt == loop_pc \in {"none", "objective"}

NextLoop ==
    \/ CallerAt /\ Stop(MainThread)
    \/ LoopBegin
    \/ LoopAsk
    \/ LoopTell
    \/ LoopCheck

SpecLoop == Init /\ [][NextLoop]_vars

\* The trial lifecycle with one caller who also builds Trial handles for
\* trials it did not get from ask().
NextHandles ==
    \/ Ask(MainThread)
    \/ Tell(MainThread)
    \/ AddTrial(MainThread)
    \/ EnqueueTrial(MainThread)
    \/ NewTrialHandle(MainThread)

SpecHandles == Init /\ [][NextHandles]_vars

\* Callers on several threads: a storage call is one step, and the steps of
\* different callers interleave.
Room(cap) == Len(trials) < cap

NextConc ==
    \E t \in Threads :
        \/ Room(MaxConcTrials) /\ Ask(t)
        \/ TellBegin(t)
        \/ TellWrite(t)
        \/ GetTrials(t)

SpecConc == InitDefault /\ [][NextConc]_vars

\* Trial creation by several Study instances on the same study of one storage,
\* one instance per thread: each storage call is one step.
NextCreate ==
    \E t \in Threads :
        \/ AskRefresh(t)
        \/ AskCreate(t)
        \/ AddTrial(t)
        \/ AddTrialCopy(t)
        \/ EnqueueTrial(t)

SpecCreate == InitDefault /\ [][NextCreate]_vars

\* Study creation and loading on a storage whose first study takes trials.
NextStudies ==
    \/ CreateStudy(MainThread)
    \/ LoadStudy(MainThread)
    \/ Ask(MainThread)
    \/ EnqueueTrial(MainThread)

SpecStudies == Init /\ [][NextStudies]_vars

\* Reads whose results the caller keeps and writes to.
NextCopy ==
    \/ Room(MaxConcTrials) /\ Ask(MainThread)
    \/ Room(MaxConcTrials) /\ AddTrial(MainThread)
    \/ HoldGetTrials(MainThread)
    \/ HoldTrials(MainThread)
    \/ HoldBestTrial(MainThread)
    \/ MutateHeld(MainThread)

SpecCopy == Init /\ [][NextCopy]_vars

\* Pruning decisions: trials are created and put into brackets, and the study
\* is filtered for one of them.
NextPruner ==
    \/ Ask(MainThread)
    \/ EnqueueTrial(MainThread)
    \/ AssignBracket
    \/ FilterStudy(MainThread)

SpecPruner == Init /\ [][NextPruner]_vars

\* A view that is kept and listed while the study goes on taking trials.
NextView ==
    \/ Ask(MainThread)
    \/ EnqueueTrial(MainThread)
    \/ AssignBracket
    \/ FilterStudy(MainThread)
    \/ ViewGetTrials(MainThread)

SpecView == Init /\ [][NextView]_vars

\* A Study that is serialized and reconstructed while it is in use: its own
\* loop and stop() go on, and the reconstructed Study has its own.
NextPickle ==
    \/ CallerAt /\ Stop(MainThread)
    \/ CallerAt /\ GetState(MainThread)
    \/ CallerAt /\ SetState(MainThread)
    \/ CallerAt /\ StopLoaded(MainThread)
    \/ LoadedLoopBegin
    \/ LoadedLoopEnd
    \/ LoopBegin
    \/ LoopAsk
    \/ LoopTell
    \/ LoopCheck

SpecPickle == InitDefault /\ [][NextPickle]_vars

\* The stop protocol with callers on several threads: each step of stop() is
\* one step, and the loop may start, run and end in between.
NextStop ==
    \/ \E t \in Threads : StopProbe(t) \/ StopRelease(t) \/ StopSetFlag(t)
    \/ LoopBegin
    \/ LoopAsk
    \/ LoopTell
    \/ LoopCheck

SpecStop == InitDefault /\ [][NextStop]_vars

\* ------------------------------------------------------------------ claims
AllCreatedByAsk == \A k \in 1..Len(createLog) : createLog[k] = "ask"
ExtremeValue(direction, S) ==
    CHOOSE m \in S : \A x \in S : IF direction = MINIMIZE THEN m <= x ELSE m >= x
CompleteValues == {trials[id + 1].value : id \in CompleteTrialIds(trials, StudyId)}
OccurrencesOf(listed, number) == {i \in 1..Len(listed) : listed[i].number = number}

\* C1: the numbers of the trials returned by successive ask() calls are strictly
\* increasing, and when no other call created a trial in between they are
\* 0, 1, 2, ... in call order.
C1_AskNumbersSequential ==
    /\ \A i, j \in 1..Len(askLog) : i < j => askLog[i] < askLog[j]
    /\ AllCreatedByAsk => \A i \in 1..Len(askLog) : askLog[i] = i - 1

C1_Witness ==
    /\ Len(askLog) = MaxTrials
    /\ AllCreatedByAsk

\* C2: in every reachable state, tell(trial, COMPLETE, v) on a RUNNING trial
\* obtained from ask() returns normally and leaves a storage in which
\* get_trials() lists that trial exactly once, COMPLETE and with value v; on a
\* study with that one trial the list has exactly one entry.  (Tell sets
\* trials' to tell(trials, ...), so this is the state after the call.)
C2_TellCompleteThenListed ==
    \A trial \in handles, v \in Values :
        trials[trial + 1].state = RUNNING
        => LET after == tell(trials, trial, COMPLETE, v)
               listed == get_trials(after)
               hits == OccurrencesOf(listed, TrialNumber(trials, trial))
           IN /\ tell_status(trials, trial, COMPLETE, v) = "ok"
              /\ Cardinality(hits) = 1
              /\ \A i \in hits : listed[i].state = COMPLETE /\ listed[i].value = v
              /\ Len(trials) = 1 => Len(listed) = 1

C2_Witness ==
    /\ result[MainThread] = Outcome("tell", "ok")
    /\ Len(trials) = 1
    /\ trials[1].state = COMPLETE
    /\ trials[1].value = MaxValue
    /\ createLog = <<"ask">>

\* C3: tell(trial, COMPLETE, None) fails before any storage write: every trial
\* (the told one included) and every study is as before the call.
C3_TellCompleteNoneFails ==
    [][result'[MainThread].op = "tell" =>
        \A trial \in handles :
            TellCall(MainThread, trial, COMPLETE, None)
            => /\ result'[MainThread] = Outcome("tell", "AssertionError")
               /\ trials' = trials
               /\ studies' = studies]_vars

C3_Witness ==
    /\ result[MainThread] = Outcome("tell", "AssertionError")
    /\ \E id \in handles : trials[id + 1].state = RUNNING /\ trials[id + 1].value = None
    /\ Len(trials) = MaxTrials

\* C6: with a COMPLETE trial present, best_value is the minimum (MINIMIZE) or
\* maximum (MAXIMIZE) value over the COMPLETE trials, and best_trial and
\* best_params are those of a COMPLETE trial with that value; trials in any
\* other state are not chosen, whatever value they carry.
C6_BestIsExtremeComplete ==
    CompleteTrialIds(trials, StudyId) # {} =>
        LET extreme == ExtremeValue(get_study_direction(studies, StudyId), CompleteValues)
        IN /\ best_trial(trials, studies) # {}
           /\ best_value(trials, studies) = {extreme}
           /\ \A b \in best_trial(trials, studies) :
                /\ b.state = COMPLETE
                /\ b.value = extreme
                /\ b.params \in best_params(trials, studies)
           /\ \A p \in best_params(trials, studies) :
                \E id \in CompleteTrialIds(trials, StudyId) :
                    trials[id + 1].params = p /\ trials[id + 1].value = extreme

C6_Witness ==
    /\ CompleteValues # {}
    /\ \E id \in TrialIds(trials) :
        /\ trials[id + 1].state = PRUNED
        /\ trials[id + 1].value # None
        /\ \A v \in CompleteValues :
            /\ trials[id + 1].value # v
            /\ Better(get_study_direction(studies, StudyId), trials[id + 1].value, v)
    /\ result[MainThread] = Outcome("best_trial", "ok")

\* C7: without a COMPLETE trial, best_trial, best_value and best_params have
\* nothing to return: the call fails with the empty-result error and the
\* storage is as before.
C7_BestOfNoneFails ==
    /\ [](CompleteTrialIds(trials, StudyId) = {} =>
            /\ best_trial(trials, studies) = {}
            /\ best_value(trials, studies) = {}
            /\ best_params(trials, studies) = {})
    /\ [][(CompleteTrialIds(trials, StudyId) = {} /\ BestTrial(MainThread))
            => /\ result'[MainThread] = Outcome("best_trial", "EmptyResultError")
               /\ UNCHANGED storageVars]_vars

C7_Witness ==
    /\ result[MainThread] = Outcome("best_trial", "EmptyResultError")
    /\ Len(trials) = MaxTrials
    /\ \E id \in TrialIds(trials) : trials[id + 1].state = PRUNED /\ trials[id + 1].value # None
    /\ \E id \in TrialIds(trials) : trials[id + 1].state = WAITING

\* C8: stop() while no loop holds the lock raises the usage error, leaves the
\* stop flag as it was (unset stays unset) and leaves the lock free, so a loop
\* can begin afterwards.
C8_StopOutsideLoopRaises ==
    /\ [][(~optimize_lock /\ Stop(MainThread))
            => /\ result'[MainThread] = Outcome("stop", "RuntimeError")
               /\ stop_flag' = stop_flag
               /\ ~optimize_lock'
               /\ UNCHANGED <<storageVars, loopVars>>]_vars
    /\ [](/\ result[MainThread] = Outcome("stop", "RuntimeError")
          /\ loop_pc = "none"
          /\ Len(trials) < MaxTrials
          => ENABLED LoopBegin)

C8_Witness ==
    /\ result[MainThread] = Outcome("stop", "RuntimeError")
    /\ ~stop_flag
    /\ ~optimize_lock
    /\ loop_pc = "none"

\* C9: stop() from inside the running loop (the loop holds the lock) is never
\* blocked and returns normally, sets the stop flag, leaves the lock with the
\* loop and the storage untouched; the loop, polling the flag after the
\* current trial, then takes no further trial.
C9_StopInsideLoopSetsFlag ==
    /\ [](loop_pc = "objective" => optimize_lock /\ ENABLED Stop(MainThread))
    /\ [][(loop_pc = "objective" /\ Stop(MainThread))
            => /\ result'[MainThread] = Outcome("stop", "ok")
               /\ stop_flag'
               /\ optimize_lock'
               /\ UNCHANGED <<storageVars, loopVars>>]_vars
    /\ [][(loop_pc = "check" /\ stop_flag) => loop_pc' # "ask"]_vars

C9_Witness ==
    /\ result[MainThread] = Outcome("stop", "ok")
    /\ stop_flag
    /\ loop_pc = "none"
    /\ ~optimize_lock
    /\ Len(trials) = 1
    /\ trials[1].state = COMPLETE

\* C10: with an enqueued trial waiting, the next ask() hands out the oldest
\* WAITING trial: the handle is that trial's, the trial becomes RUNNING and
\* keeps its fixed_params payload.
WaitingTrialIds == {id \in TrialIds(trials) : trials[id + 1].state = WAITING}
OldestWaiting == CHOOSE id \in WaitingTrialIds : \A other \in WaitingTrialIds : id <= other

C10_AskConsumesEnqueued ==
    [][(WaitingTrialIds # {} /\ Ask(MainThread))
        => /\ OldestWaiting \in handles'
           /\ trials'[OldestWaiting + 1].state = RUNNING
           /\ trials'[OldestWaiting + 1].system_attrs = trials[OldestWaiting + 1].system_attrs]_vars

\* C4: in every interleaving of tell() calls with readers, a trial that a
\* reader sees COMPLETE already shows its value.
C4_CompleteHasValue ==
    \A i \in 1..Len(get_trials(trials)) :
        get_trials(trials)[i].state = COMPLETE => get_trials(trials)[i].value # None

C4_Witness ==
    /\ \E i \in 1..Len(get_trials(trials)) :
        get_trials(trials)[i].state = COMPLETE /\ get_trials(trials)[i].value # None
    /\ \E t \in Threads : pc[t] = "tell_state" /\ args[t].value # None
    /\ \E t \in Threads : result[t] = Outcome("get_trials", "ok")

\* C5: a trial's recorded state only ever moves along WAITING -> RUNNING ->
\* {COMPLETE, PRUNED, FAIL}, and a tell() on a trial that is not RUNNING is
\* rejected and leaves the state as it was.
C5_TellFollowsStateMachine ==
    [][/\ \A id \in TrialIds(trials) :
            trials'[id + 1].state # trials[id + 1].state
            => ValidTransition(trials[id + 1].state, trials'[id + 1].state)
       /\ \A trial \in handles, state \in TrialStates, value \in {None} \cup Values :
            (trials[trial + 1].state # RUNNING /\ TellCall(MainThread, trial, state, value))
            => /\ result'[MainThread].status # "ok"
               /\ trials'[trial + 1].state = trials[trial + 1].state]_vars

\* C11: add_trial of an inconsistent FrozenTrial (params and distributions name
\* different parameters, or a finished state without a value) raises and
\* leaves the storage it was called on exactly as it was: same trials, same
\* count.  (AddTrial sets trials' to add_trial(trials, ...).)
C11_AddTrialRejectsInvalid ==
    \A frozen \in FrozenTrials :
        ~validate(frozen)
        => /\ add_trial_status(frozen) = "ValueError"
           /\ add_trial(trials, frozen) = trials
           /\ Len(get_trials(add_trial(trials, frozen))) = Len(get_trials(trials))

C11_Witness ==
    /\ result[MainThread] = Outcome("add_trial", "ValueError")
    /\ Len(trials) = MaxTrials
    /\ \E k \in 1..Len(createLog) : createLog[k] = "add_trial"

\* C16: every trial in the storage that ask() created (its record was written
\* by ask and tell only) carries a value exactly when it is COMPLETE.
C16_ValueIffComplete ==
    \A id \in TrialIds(trials) :
        createLog[id + 1] = "ask"
        => (trials[id + 1].value # None <=> trials[id + 1].state = COMPLETE)

\* C18: a tell() on a trial that is already COMPLETE, PRUNED or FAIL is
\* rejected and leaves the trial's record (state and value) as it was.
C18_RejectedTellWritesNothing ==
    \A trial \in handles, state \in TrialStates, value \in {None} \cup Values :
        trials[trial + 1].state \in FinishedStates
        => /\ tell_status(trials, trial, state, value) # "ok"
           /\ tell(trials, trial, state, value)[trial + 1] = trials[trial + 1]

\* C20: with callers telling the same RUNNING trial concurrently, at most one
\* tell per trial succeeds, and the state write that is accepted leaves the
\* trial with the value that same tell passed.
FinishedTrialIds == {id \in TrialIds(trials) : trials[id + 1].state \in FinishedStates}
TellStateAccepted(t) ==
    /\ pc[t] = "tell_state"
    /\ TellStepOk(trials, pc[t], args[t].trial, args[t].state)
    /\ args[t].state \in FinishedStates
    /\ TellWrite(t)

C20_AcceptedTellDecidesValue ==
    /\ [](Cardinality({t \in Threads : result[t] = Outcome("tell", "ok")})
            <= Cardinality(FinishedTrialIds))
    /\ [][\A t \in Threads :
            (TellStateAccepted(t) /\ args[t].value # None)
            => trials'[args[t].trial + 1].value = args[t].value]_vars

\* C19: the probe of a stop() call fails only when an evaluation loop holds the
\* lock, so with no loop running no stop() call goes on to set the stop flag:
\* every such call raises the usage error.
LoopActive == loop_pc # "none"

C19_ConcurrentStopNeverSetsFlag ==
    [][\A t \in Threads :
        (~LoopActive /\ StopProbe(t)) => pc'[t] = "stop_release"]_vars

\* C17: under every interleaving of ask(), enqueue_trial() and add_trial() by
\* several Study instances on one study, the trial numbers of the study are
\* exactly 0..n-1 in creation order (no duplicate, no gap), every creating call
\* made one new trial and every ask() returned a different trial id; a trial
\* added from a FrozenTrial that carries a number gets the fresh number.
C17_NumbersGapFree ==
    /\ \A id \in StudyTrialIds(trials, StudyId) : trials[id + 1].number = id
    /\ {trials[id + 1].number : id \in StudyTrialIds(trials, StudyId)}
         = 0 .. (Cardinality(StudyTrialIds(trials, StudyId)) - 1)
    /\ Len(createLog) = Len(trials)
    /\ Cardinality(handles) = Len(askLog)
    /\ \A i \in 1..Len(get_trials(trials)) :
         Len(trials) < MaxTrials
         => add_trial(trials, get_trials(trials)[i])[Len(trials) + 1].number = Len(trials)

C17_Witness ==
    /\ Len(trials) = MaxTrials
    /\ createLog[1] = "ask"
    /\ createLog[Len(trials)] = "add_trial"
    /\ trials[Len(trials)].state = RUNNING
    /\ \E t \in Threads : pc[t] = "ask_create"
    /\ \E t \in Threads : result[t] = Outcome("add_trial", "ok")

\* C14: create_study with a name that exists in the storage and a valid
\* direction: with load_if_exists = False it raises the duplicate-study error
\* and the studies are as before; with load_if_exists = True it returns
\* normally a Study bound to the existing study's id, the studies are as many
\* as before and the trials are untouched.
C14_DuplicateNameHandled ==
    [][\A study_name \in StudyNames(studies), direction \in Directions :
        /\ CreateStudyCall(MainThread, study_name, direction, FALSE)
           => /\ result'[MainThread] = Outcome("create_study", "DuplicatedStudyError")
              /\ studies' = studies
              /\ trials' = trials
        /\ CreateStudyCall(MainThread, study_name, direction, TRUE)
           => /\ result'[MainThread] = Outcome("create_study", "ok")
              /\ create_study_id(studies, study_name, TRUE)
                   = get_study_id_from_name(studies, study_name)
              /\ Len(studies') = Len(studies)
              /\ trials' = trials]_vars

\* C15: once a study has a direction it keeps it through every create_study
\* (load_if_exists with another direction included), load_study and trial
\* call; and no two studies of the storage have the same name.
C15_DirectionImmutableNamesUnique ==
    /\ [](\A a, b \in StudyIds(studies) :
            a # b => studies[a + 1].study_name # studies[b + 1].study_name)
    /\ [][/\ Len(studies') >= Len(studies)
          /\ \A id \in StudyIds(studies) :
                /\ studies'[id + 1].study_name = studies[id + 1].study_name
                /\ studies[id + 1].direction # NOT_SET
                   => studies'[id + 1].direction = studies[id + 1].direction]_vars

C15_Witness ==
    /\ result[MainThread] = Outcome("create_study", "ContractViolation")
    /\ Len(studies) = MaxStudies
    /\ \E id \in StudyIds(studies) : studies[id + 1].direction = MAXIMIZE
    /\ \E id \in StudyIds(studies) : studies[id + 1].direction = MINIMIZE
    /\ Len(trials) > 0

\* C12: a FrozenTrial obtained from get_trials(deepcopy=True), from the trials
\* property or from best_trial is an object of its own: writing to any of its
\* fields leaves the storage as it was, so get_trials() and best_trial return
\* afterwards what they returned before.
IsolatedVias == {"get_trials", "trials", "best_trial"}

C12_ReturnedTrialIsolated ==
    /\ [](held.via \in IsolatedVias => held.ref = None)
    /\ [][(held.via \in IsolatedVias /\ MutateHeld(MainThread))
            => /\ trials' = trials
               /\ get_trials(trials') = get_trials(trials)
               /\ best_trial(trials', studies') = best_trial(trials, studies)]_vars

C12_Witness ==
    /\ result[MainThread] = Outcome("mutate", "ok")
    /\ held.via = "best_trial"
    /\ held.obj.value = MutatedValue
    /\ best_value(trials, studies) = {1}
    /\ \A id \in TrialIds(trials) : trials[id + 1].value # MutatedValue

\* C13: the view _filter_study(study, trial) returns lists, for a bracket
\* (Hyperband) pruner, exactly the study's trials whose bracket id equals the
\* given trial's, in the study's order and each once; for any other pruner it
\* lists what the study lists.
SameBracketIds(ts, trial_id) ==
    {id \in StudyTrialIds(ts, StudyId) :
        _get_bracket_id(ts, id) = _get_bracket_id(ts, trial_id)}

C13_FilterStudyView ==
    [][\A pruner \in PrunerKinds, trial_id \in TrialIds(trials) :
        FilterStudyCall(MainThread, pruner, trial_id)
        => LET listed == view_get_trials(trials', view')
           IN IF pruner = HyperbandPruner
              THEN /\ {listed[i].number : i \in 1..Len(listed)}
                        = {trials[id + 1].number : id \in SameBracketIds(trials, trial_id)}
                   /\ Len(listed) = Cardinality(SameBracketIds(trials, trial_id))
                   /\ \A i \in 1..Len(listed) : listed[i] = trials[listed[i].number + 1]
                   /\ \A i, j \in 1..Len(listed) : i < j => listed[i].number < listed[j].number
              ELSE listed = get_trials(trials)]_vars

C13_Witness ==
    /\ result[MainThread] = Outcome("_filter_study", "ok")
    /\ view.kind = "bracket"
    /\ Len(view_get_trials(trials, view)) >= 1
    /\ Len(view_get_trials(trials, view)) < Len(get_trials(trials))
    /\ \A id \in TrialIds(trials) : _get_bracket_id(trials, id) # None

\* C21: each ask() refreshes and then allocates: it adds exactly one trial to
\* the study, RUNNING, without params and without value, numbered after the
\* trials the refreshed listing shows; every trial that existed keeps its
\* state, value, params and attrs, and the study records are unchanged.
C21_AskAddsOneRunningTrial ==
    [][Ask(MainThread)
        => /\ Len(trials') = Len(trials) + 1
           /\ \A id \in TrialIds(trials) : trials'[id + 1] = trials[id + 1]
           /\ Len(get_trials(trials')) = Len(get_trials(trials)) + 1
           /\ LET new == trials'[Len(trials')]
              IN /\ new.study_id = StudyId
                 /\ new.state = RUNNING
                 /\ new.value = None
                 /\ new.params = EmptyDict
                 /\ new.number = Len(get_trials(trials))
           /\ studies' = studies]_vars

C21_Witness ==
    /\ result[MainThread] = Outcome("ask", "ok")
    /\ Len(trials) = MaxTrials
    /\ createLog[Len(createLog)] = "ask"
    /\ trials[Len(trials)].state = RUNNING
    /\ \E id \in TrialIds(trials) : trials[id + 1].state \in {WAITING, COMPLETE}

\* C22: enqueue_trial(p) adds exactly one trial, WAITING, without value and
\* without params, whose system_attrs hold p under fixed_params and nothing
\* else; get_trials() then shows that trial last with the same mapping p, and
\* every trial that existed is unchanged.
AttrsWith(attrs, key) == {kv[2] : kv \in {e \in attrs : e[1] = key}}

C22_EnqueueRoundTrips ==
    \A p \in FixedParams \cup {EmptyDict} :
        LET after == enqueue_trial(trials, p)
            listed == get_trials(after)
        IN /\ Len(after) = Len(trials) + 1
           /\ \A id \in TrialIds(trials) : after[id + 1] = trials[id + 1]
           /\ after[Len(after)].state = WAITING
           /\ after[Len(after)].value = None
           /\ after[Len(after)].params = EmptyDict
           /\ Keys(after[Len(after)].system_attrs) = {"fixed_params"}
           /\ AttrsWith(after[Len(after)].system_attrs, "fixed_params") = {p}
           /\ Len(listed) = Len(get_trials(trials)) + 1
           /\ AttrsWith(listed[Len(listed)].system_attrs, "fixed_params") = {p}

C22_Witness ==
    /\ result[MainThread] = Outcome("enqueue_trial", "ok")
    /\ Len(trials) = MaxTrials
    /\ createLog[Len(createLog)] = "enqueue_trial"
    /\ trials[Len(trials)].state = WAITING
    /\ \E p \in FixedParams :
        AttrsWith(get_trials(trials)[Len(trials)].system_attrs, "fixed_params") = {p}
    /\ \E id \in TrialIds(trials) : trials[id + 1].state = COMPLETE

\* C23: a call that builds a view (_filter_study) or lists a view's trials
\* changes no trial and no study record of the storage; and a bracket view is
\* live: whatever the study holds now, trials created since the view was
\* built included, the view lists exactly the trials of its bracket.
ViewCallReturns ==
    /\ result'[MainThread].op \in {"_filter_study", "view_get_trials"}
    /\ result' # result \/ view' # view

C23_ViewReadOnlyAndLive ==
    /\ [][ViewCallReturns => trials' = trials /\ studies' = studies]_vars
    /\ [](view.kind = "bracket"
            => LET listed == view_get_trials(trials, view)
               IN /\ \A id \in StudyTrialIds(trials, StudyId) :
                        _get_bracket_id(trials, id) = view.bracket_id
                        <=> \E i \in 1..Len(listed) : listed[i] = trials[id + 1]
                  /\ \A i \in 1..Len(listed) :
                        _get_bracket_id(trials, listed[i].number) = view.bracket_id)

\* The view was built for trial 0; the caller's last call is the ask() that
\* created trial 1 afterwards, and that trial went into the same bracket.
C23_Witness ==
    /\ view.kind = "bracket"
    /\ view.trial_id = 0
    /\ result[MainThread] = Outcome("ask", "ok")
    /\ Len(trials) >= 2
    /\ _get_bracket_id(trials, 1) = view.bracket_id
    /\ Len(view_get_trials(trials, view)) >= 2
    /\ view_get_trials(trials, view)[2] = trials[2]

\* C24: a snapshot taken by __getstate__ holds every attribute but the lock,
\* and taking it leaves the Study's lock, held or free, and its flag alone; a
\* Study reconstructed by __setstate__ has a lock of its own that is free, also
\* when the original's lock was held when the snapshot was taken or is held
\* now; stop() on the reconstructed Study raises RuntimeError and changes
\* nothing while its own lock is free, whatever the original's lock is, and
\* sets its flag once its own loop holds its lock.
C24_SnapshotWithoutLock ==
    /\ [](\A state \in pickled :
            DOMAIN state = {"study_name", "_study_id", "_stop_flag"})
    /\ [][pickled' # pickled
            => optimize_lock' = optimize_lock /\ stop_flag' = stop_flag /\ loaded' = loaded]_vars
    /\ [][SetState(MainThread)
            => /\ \A self \in loaded' :
                    /\ "_optimize_lock" \in DOMAIN self
                    /\ self["_optimize_lock"] = FALSE
               /\ loaded' # {}
               /\ optimize_lock' = optimize_lock]_vars
    /\ [][StopLoaded(MainThread)
            => \A self \in loaded :
                IF self["_optimize_lock"]
                THEN /\ result'[MainThread].status = "ok"
                     /\ \A after \in loaded' : after["_stop_flag"]
                ELSE /\ result'[MainThread].status = "RuntimeError"
                     /\ loaded' = loaded
                     /\ optimize_lock' = optimize_lock /\ stop_flag' = stop_flag]_vars

\* The snapshot was taken while the loop held the lock; the loop still holds
\* it, and stop() on the reconstructed Study has just raised.
C24_Witness ==
    /\ snapLock
    /\ optimize_lock
    /\ pickled # {}
    /\ \E self \in loaded : ~self["_optimize_lock"]
    /\ result[MainThread] = Outcome("loaded.stop", "RuntimeError")

\* C25: create_study with a direction that is neither 'minimize' nor
\* 'maximize' (and a name the storage can take) raises ValueError and the
\* storage holds the studies it held before; and whenever a create_study call
\* has returned or raised, every study of the storage has the direction
\* MINIMIZE or MAXIMIZE.
C25_FailedCreateLeavesNoTrace ==
    /\ [][\A study_name \in StudyNameArgs, load_if_exists \in BOOLEAN :
            \A direction \in DirectionArgs \ Directions :
                (create_new_study_ok(studies, study_name)
                 /\ CreateStudyCall(MainThread, study_name, direction, load_if_exists))
                => /\ result'[MainThread] = Outcome("create_study", "ValueError")
                   /\ studies' = studies]_vars
    /\ [](result[MainThread].op = "create_study"
            => \A id \in StudyIds(studies) : studies[id + 1].direction \in {MINIMIZE, MAXIMIZE})
====
